---- MODULE Spec2Model ----
(***************************************************************************)
(* A model of flopy's MODFLOW discretization package (ModflowDis,          *)
(* src/flopy/modflow/mfdis.py): the grid object, its node-index            *)
(* arithmetic, its derived geometry, its discretization-file writer and    *)
(* loader and its reader of legacy configuration files; and of the         *)
(* evapotranspiration package (ModflowEvt, src/flopy/modflow/mfevt.py):    *)
(* its file writer and loader over the transient array manager.            *)
(*                                                                         *)
(* Representation.                                                         *)
(*  - Python lists and numpy arrays are sequences indexed from 1; a Python *)
(*    index p is the model index p+1.  Layer, row and column numbers that  *)
(*    the program itself treats as 1-based (get_lrc, get_node) are kept    *)
(*    as they are.                                                         *)
(*  - A constructor argument is a discriminated value, Scalar(v) or        *)
(*    Arr(a): the array classes broadcast a scalar to the full shape.      *)
(*  - Elevations and widths are whole numbers (exact in float32).          *)
(*  - perlen and tsmult, whose text form matters, are decimal numbers      *)
(*    Flt(ip, fp): ip + fp / 10^7, with 0 <= fp < 10^7.                    *)
(*  - A file is a sequence of lines; a line is a sequence of characters    *)
(*    (one-character strings) without its newline.                         *)
(*  - The arrays of a transient field are kept by stress period, counted   *)
(*    from 0 as the program counts them.                                   *)
(*  - With each exit of an operation the model keeps the number of file    *)
(*    handles the operation opened and did not close.                      *)
(*  - A call that never ends is kept as the last operation with "hang" in  *)
(*    the place of its exception; nothing follows it.                      *)
(***************************************************************************)
EXTENDS Integers, Sequences, FiniteSets, TLC

VARIABLES
    dis,    \* the ModflowDis package of the model, or NoDis before one exists
    fs,     \* the content of the package's file fn_path, or NoFile
    ret,    \* what the last operation was given and what it returned or raised
    evt,    \* the ModflowEvt package of the model, or NoEvt before one exists
    efs     \* the content of the evapotranspiration package's file, or NoFile

vars == <<dis, fs, ret, evt, efs>>

(***************************************************************************)
(* Bounds of the model.                                                    *)
(***************************************************************************)
MaxLay == 2
MaxRow == 2
MaxCol == 2
MaxPer == 2
MaxBatch == 2
MaxEvtPer == 5

NoDis == [none |-> TRUE]
NoFile == <<>>

\* an argument that may be a scalar or an array: s holds the scalar (or
\* nothing) and a the array (or nothing)
Scalar(v) == [k |-> "scalar", s |-> <<v>>, a |-> <<>>]
Arr(a) == [k |-> "array", s |-> <<>>, a |-> a]

RECURSIVE SumSeq(_)
SumSeq(s) == IF Len(s) = 0 THEN 0 ELSE s[Len(s)] + SumSeq(SubSeq(s, 1, Len(s) - 1))

\* every sequence of length n over S
SeqsOf(S, n) == [1..n -> S]

(***************************************************************************)
(* The array classes util_2d and util_3d (flopy.utils): a value given as a *)
(* scalar is broadcast to the declared shape; an array must have it.       *)
(***************************************************************************)
ShapeOk1(n, val) == val.k = "scalar" \/ Len(val.a) = n

util_1d(n, val) == IF val.k = "scalar" THEN [i \in 1..n |-> val.s[1]] ELSE val.a

ShapeOk2(nr, nc, val) ==
    \/ val.k = "scalar"
    \/ Len(val.a) = nr /\ \A r \in 1..nr : Len(val.a[r]) = nc

util_2d(nr, nc, val) ==
    IF val.k = "scalar" THEN [r \in 1..nr |-> [c \in 1..nc |-> val.s[1]]] ELSE val.a

\* one value for each plane, each broadcast over its plane
Layers(a) == [k |-> "layers", s |-> <<>>, a |-> a]

\* util_3d takes a scalar, one value per plane, or the full array
ShapeOk3(np, nr, nc, val) ==
    \/ val.k = "scalar"
    \/ val.k = "layers" /\ Len(val.a) = np
    \/ /\ val.k = "array"
       /\ Len(val.a) = np
       /\ \A p \in 1..np : ShapeOk2(nr, nc, Arr(val.a[p]))

util_3d(np, nr, nc, val) ==
    IF val.k = "array" THEN val.a
    ELSE [p \in 1..np |-> [r \in 1..nr |-> [c \in 1..nc |->
            IF val.k = "scalar" THEN val.s[1] ELSE val.a[p]]]]

(***************************************************************************)
(* ModflowDis.__init__                                                     *)
(***************************************************************************)
\* the mutant: the bottom layer's flag is left as given
ForceBottomZero_kept(laycbd) == laycbd

\* self.laycbd[-1] = 0
ForceBottomZero(laycbd) == [laycbd EXCEPT ![Len(laycbd)] = 0]

\* the first dimension of botm: self.nlay+sum(self.laycbd)
BotmPlanes(nlay, laycbd) == nlay + SumSeq(laycbd)

\* the constructor's defaults for the arguments a caller leaves out
DefaultArgs ==
    [nlay |-> 1, nrow |-> 2, ncol |-> 2, nper |-> 1,
     delr |-> Scalar(1), delc |-> Scalar(1), laycbd |-> Scalar(0),
     top |-> Scalar(1), botm |-> Scalar(0),
     perlen |-> Scalar([ip |-> 1, fp |-> 0]), nstp |-> Scalar(1),
     tsmult |-> Scalar([ip |-> 1, fp |-> 0]), steady |-> Scalar(TRUE),
     itmuni |-> 4, lenuni |-> 2]

\* the object __init__ builds from its arguments, or the error it raises
ModflowDis(a) ==
    IF a.nlay < 1 THEN [exc |-> "IndexError", obj |-> NoDis]
    ELSE IF ~ShapeOk1(a.nlay, a.laycbd) THEN [exc |-> "ShapeError", obj |-> NoDis]
    ELSE
    LET laycbd == ForceBottomZero(util_1d(a.nlay, a.laycbd))
        np == BotmPlanes(a.nlay, laycbd)
    IN  IF ~(/\ ShapeOk1(a.ncol, a.delr) /\ ShapeOk1(a.nrow, a.delc)
             /\ ShapeOk2(a.nrow, a.ncol, a.top) /\ ShapeOk3(np, a.nrow, a.ncol, a.botm)
             /\ ShapeOk1(a.nper, a.perlen) /\ ShapeOk1(a.nper, a.nstp)
             /\ ShapeOk1(a.nper, a.tsmult) /\ ShapeOk1(a.nper, a.steady))
        THEN [exc |-> "ShapeError", obj |-> NoDis]
        ELSE [exc |-> "none",
              obj |-> [nlay |-> a.nlay, nrow |-> a.nrow, ncol |-> a.ncol,
                       nper |-> a.nper,
                       laycbd |-> laycbd,
                       delr |-> util_1d(a.ncol, a.delr),
                       delc |-> util_1d(a.nrow, a.delc),
                       top |-> util_2d(a.nrow, a.ncol, a.top),
                       botm |-> util_3d(np, a.nrow, a.ncol, a.botm),
                       perlen |-> util_1d(a.nper, a.perlen),
                       nstp |-> util_1d(a.nper, a.nstp),
                       tsmult |-> util_1d(a.nper, a.tsmult),
                       steady |-> util_1d(a.nper, a.steady),
                       itmuni |-> a.itmuni, lenuni |-> a.lenuni]]

(***************************************************************************)
(* Node-index arithmetic.                                                  *)
(***************************************************************************)
\* int(x / y) for whole x and y > 0: the quotient truncated towards zero
\* (true division).  Under floor division the quotient of a negative x is one
\* less, and the correction that follows in get_lrc (k += 1 when k * nrc <
\* node) brings k and i to the same values.
IntDiv(x, y) == IF x >= 0 THEN x \div y ELSE -((-x) \div y)

\* isinstance(x, list): a batch is a list; anything else is wrapped in one
AsList(x) == IF x.k = "array" THEN x.a ELSE x.s

\* the mutant: the remainder within the layer is split by nrow, not ncol
lrc_of_node_byrow(d, node) ==
    LET nrc == d.nrow * d.ncol
        k0 == IntDiv(node, nrc)
        k == IF k0 * nrc < node THEN k0 + 1 ELSE k0
        ij == node - (k - 1) * nrc
        i0 == IntDiv(ij, d.nrow)
        i == IF i0 * d.nrow < ij THEN i0 + 1 ELSE i0
        j == ij - (i - 1) * d.nrow
    IN  <<k, i, j>>

\* the body of get_lrc's loop, for one node
lrc_of_node(d, node) ==
    LET nrc == d.nrow * d.ncol
        k0 == IntDiv(node, nrc)
        k == IF k0 * nrc < node THEN k0 + 1 ELSE k0
        ij == node - (k - 1) * nrc
        i0 == IntDiv(ij, d.ncol)
        i == IF i0 * d.ncol < ij THEN i0 + 1 ELSE i0
        j == ij - (i - 1) * d.ncol
    IN  <<k, i, j>>

get_lrc(d, nodes) ==
    LET l == AsList(nodes) IN [n \in 1..Len(l) |-> lrc_of_node(d, l[n])]

\* the mutant: the row stride is nrow, not ncol
node_of_lrc_byrow(d, lrc) ==
    LET nrc == d.nrow * d.ncol
    IN  ((lrc[1] - 1) * nrc) + ((lrc[2] - 1) * d.nrow) + lrc[3]

\* the mutant: the column is taken as zero-based
node_of_lrc_zerobased(d, lrc) ==
    LET nrc == d.nrow * d.ncol
    IN  ((lrc[1] - 1) * nrc) + ((lrc[2] - 1) * d.ncol) + (lrc[3] - 1)

\* the body of get_node's loop, for one (k, i, j)
node_of_lrc(d, lrc) ==
    LET nrc == d.nrow * d.ncol
    IN  ((lrc[1] - 1) * nrc) + ((lrc[2] - 1) * d.ncol) + lrc[3]

get_node(d, lrc_list) ==
    LET l == AsList(lrc_list) IN [n \in 1..Len(l) |-> node_of_lrc(d, l[n])]

(***************************************************************************)
(* Derived geometry.                                                       *)
(***************************************************************************)
\* the mutant: every layer is measured from the top of the model
thickness_plane_fromtop(d, k) ==
    [r \in 1..d.nrow |-> [c \in 1..d.ncol |-> d.top[r][c] - d.botm[k][r][c]]]

\* one entry of thk: self.top - self.botm[0], or self.botm[k-1] - self.botm[k];
\* k is the model index of the plane (the program's k, plus one)
thickness_plane(d, k) ==
    [r \in 1..d.nrow |-> [c \in 1..d.ncol |->
        IF k = 1 THEN d.top[r][c] - d.botm[1][r][c]
        ELSE d.botm[k - 1][r][c] - d.botm[k][r][c]]]

\* the thickness property: one plane for layer 0 and one for each k in range(1, nlay)
thickness(d) == [k \in 1..d.nlay |-> thickness_plane(d, k)]

\* get_cell_volumes: vol is allocated by np.empty and never assigned, only
\* multiplied in place; buf is what the buffer held when it was allocated
get_cell_volumes(d, buf) ==
    LET thk == thickness(d)
    IN  [l \in 1..d.nlay |-> [r \in 1..d.nrow |-> [c \in 1..d.ncol |->
            ((buf[l][r][c] * thk[l][r][c]) * d.delc[r]) * d.delr[c]]]]

\* the loops of get_node_coordinates over a sequence w of widths, before any
\* inversion.  Centroids are held doubled (the value times 2), so that the
\* program's division by 2. is exact on whole widths.
RECURSIVE centres2(_, _)
centres2(w, n) ==
    IF n = 1 THEN w[1]
    ELSE centres2(w, n - 1) + (w[n] + w[n - 1])

\* y[::-1]
Reversed(s) == [i \in 1..Len(s) |-> s[Len(s) + 1 - i]]

\* get_node_coordinates: (y, x, z), each value doubled
get_node_coordinates(d) ==
    [y |-> Reversed([r \in 1..d.nrow |-> centres2(d.delc, r)]),
     x |-> [c \in 1..d.ncol |-> centres2(d.delr, c)],
     z |-> [l \in 1..d.nlay |-> [r \in 1..d.nrow |-> [c \in 1..d.ncol |->
              IF l = 1 THEN d.top[r][c] + d.botm[1][r][c]
              ELSE d.botm[l - 1][r][c] + d.botm[l][r][c]]]]]

(***************************************************************************)
(* Text: the format specifications write_file uses and the conversions     *)
(* load applies to the tokens of a line.                                   *)
(***************************************************************************)
Digits == <<"0", "1", "2", "3", "4", "5", "6", "7", "8", "9">>

IsDigit(c) == \E n \in 1..10 : Digits[n] = c

DigitVal(c) == (CHOOSE n \in 1..10 : Digits[n] = c) - 1

Spaces(n) == [i \in 1..n |-> " "]

RECURSIVE NatStr(_)
NatStr(n) ==
    IF n < 10 THEN <<Digits[n + 1]>>
    ELSE NatStr(n \div 10) \o <<Digits[(n % 10) + 1]>>

\* right-justification to a minimum width: a longer text is never cut
PadLeft(s, w) == IF Len(s) >= w THEN s ELSE Spaces(w - Len(s)) \o s

\* left-justification to a minimum width ('{0:3s}')
PadRight(s, w) == IF Len(s) >= w THEN s ELSE s \o Spaces(w - Len(s))

\* '{:<w>d}'
FmtD(n, w) == PadLeft(IF n < 0 THEN <<"-">> \o NatStr(-n) ELSE NatStr(n), w)

Flt(ip, fp) == [ip |-> ip, fp |-> fp]

\* '{:<w>f}': six decimals, rounded to nearest (the model has no value whose
\* seventh decimal is a tie)
FmtF(x, w) ==
    LET q == (x.fp + 5) \div 10
        ip == IF q = 1000000 THEN x.ip + 1 ELSE x.ip
        f6 == IF q = 1000000 THEN 0 ELSE q
    IN  PadLeft(NatStr(ip) \o <<".">> \o SubSeq(NatStr(1000000 + f6), 2, 7), w)

\* str.split(): the maximal runs of non-blank characters.  TokenEnd is
\* where the run that begins at i ends; SplitFrom gives the runs from
\* position i on.
TokenEnd(line, i) ==
    CHOOSE j \in i..Len(line) :
        /\ line[j] # " "
        /\ j = Len(line) \/ line[j + 1] = " "

RECURSIVE SplitFrom(_, _)
SplitFrom(line, i) ==
    LET st == {j \in i..Len(line) : line[j] # " "}
    IN  IF st = {} THEN <<>>
        ELSE LET a == CHOOSE j \in st : \A m \in st : j <= m
                 b == TokenEnd(line, a)
             IN  <<SubSeq(line, a, b)>> \o SplitFrom(line, b + 1)

Split(line) == SplitFrom(line, 1)

RECURSIVE NatVal(_)
NatVal(s) ==
    IF Len(s) = 0 THEN 0
    ELSE NatVal(SubSeq(s, 1, Len(s) - 1)) * 10 + DigitVal(s[Len(s)])

AllDigits(s) == Len(s) > 0 /\ \A i \in 1..Len(s) : IsDigit(s[i])

\* int(tok): [ok, v]; a token that is no whole number raises ValueError
ParseInt(tok) ==
    IF AllDigits(tok) THEN [ok |-> TRUE, v |-> NatVal(tok)]
    ELSE IF Len(tok) > 1 /\ tok[1] = "-" /\ AllDigits(Tail(tok))
         THEN [ok |-> TRUE, v |-> -NatVal(Tail(tok))]
         ELSE [ok |-> FALSE, v |-> 0]

\* float(tok) for the unsigned forms "ddd" and "ddd.ddd": [ok, v]; the
\* fraction is kept to the model's seven decimals
ParseFloat(tok) ==
    LET dots == {i \in 1..Len(tok) : tok[i] = "."}
    IN  IF dots = {} THEN
            (IF AllDigits(tok) THEN [ok |-> TRUE, v |-> Flt(NatVal(tok), 0)]
             ELSE [ok |-> FALSE, v |-> Flt(0, 0)])
        ELSE
            LET p == CHOOSE i \in dots : TRUE
                a == SubSeq(tok, 1, p - 1)
                b == SubSeq(tok, p + 1, Len(tok))
                b7 == SubSeq(b \o <<"0", "0", "0", "0", "0", "0", "0">>, 1, 7)
            IN  IF Cardinality(dots) = 1 /\ AllDigits(a)
                   /\ \A i \in 1..Len(b) : IsDigit(b[i])
                THEN [ok |-> TRUE, v |-> Flt(NatVal(a), NatVal(b7))]
                ELSE [ok |-> FALSE, v |-> Flt(0, 0)]

\* str.upper() on the letters a steady/transient tag can hold
Upper(tok) ==
    [i \in 1..Len(tok) |->
        IF tok[i] = "t" THEN "T" ELSE IF tok[i] = "r" THEN "R"
        ELSE IF tok[i] = "s" THEN "S" ELSE tok[i]]

(***************************************************************************)
(* The array codec (flopy.utils util_2d / util_3d get_file_entry and load):*)
(* an array is one record of the file, a control keyword and the values;   *)
(* a util_3d is one such record for each of its planes.  A line of text    *)
(* holds no array.                                                         *)
(***************************************************************************)
TextLine(chars) == [txt |-> chars, arr |-> <<>>, isarr |-> FALSE, dim |-> 0]

\* dim is 1 for a record of a one-dimensional array and 2 for a plane
ArrayRecord(a, dim) ==
    [txt |-> <<"I", "N", "T", "E", "R", "N", "A", "L">>, arr |-> a, isarr |-> TRUE,
     dim |-> dim]

get_file_entry(a, dim) == <<ArrayRecord(a, dim)>>

get_file_entry_3d(a) == [p \in 1..Len(a) |-> ArrayRecord(a[p], 2)]

(***************************************************************************)
(* ModflowDis.write_file                                                   *)
(***************************************************************************)
heading ==
    <<
       "#", " ", "D", "i", "s", "c", "r", "e", "t", "i", "z", "a", "t",
       "i", "o", "n", " ", "f", "i", "l", "e", " ", "f", "o", "r", " ",
       "M", "O", "D", "F", "L", "O", "W", ",", " ", "g", "e", "n", "e",
       "r", "a", "t", "e", "d", " ", "b", "y", " ", "F", "l", "o", "p",
       "y", "."
    >>

RECURSIVE LaycbdText(_, _)
\* for l in range(0, self.nlay): f_dis.write('{0:3d}'.format(self.laycbd[l]))
LaycbdText(d, l) ==
    IF l > d.nlay THEN <<>> ELSE FmtD(d.laycbd[l], 3) \o LaycbdText(d, l + 1)

\* the line of stress period t (the model index: the program's t, plus one)
PeriodLine(d, t) ==
    FmtF(d.perlen[t], 14) \o FmtD(d.nstp[t], 14) \o FmtF(d.tsmult[t], 10)
        \o <<" ">> \o <<" ">>
        \o PadRight(IF d.steady[t] THEN <<"S", "S">> ELSE <<"T", "R">>, 3)

\* a writer that emits the row widths before the column widths
write_file_delcfirst(d) ==
    <<TextLine(heading)>>
    \o <<TextLine(FmtD(d.nlay, 10) \o FmtD(d.nrow, 10) \o FmtD(d.ncol, 10)
                  \o FmtD(d.nper, 10) \o FmtD(d.itmuni, 10) \o FmtD(d.lenuni, 10))>>
    \o <<TextLine(LaycbdText(d, 1))>>
    \o get_file_entry(d.delc, 1)
    \o get_file_entry(d.delr, 1)
    \o get_file_entry(d.top, 2)
    \o get_file_entry_3d(d.botm)
    \o [t \in 1..d.nper |-> TextLine(PeriodLine(d, t))]

\* everything write_file writes, in the order it writes it
write_file(d) ==
    <<TextLine(heading)>>
    \o <<TextLine(FmtD(d.nlay, 10) \o FmtD(d.nrow, 10) \o FmtD(d.ncol, 10)
                  \o FmtD(d.nper, 10) \o FmtD(d.itmuni, 10) \o FmtD(d.lenuni, 10))>>
    \o <<TextLine(LaycbdText(d, 1))>>
    \o get_file_entry(d.delr, 1)
    \o get_file_entry(d.delc, 1)
    \o get_file_entry(d.top, 2)
    \o get_file_entry_3d(d.botm)
    \o [t \in 1..d.nper |-> TextLine(PeriodLine(d, t))]

(***************************************************************************)
(* ModflowDis.load                                                         *)
(***************************************************************************)
Fail(e) == [exc |-> e, obj |-> NoDis]

\* f.readline() at position pos: the line there, or '' at the end of input
AtEnd(lines, pos) == pos > Len(lines)

RECURSIVE SkipHeader(_, _)
\* dataset 0: read lines until one does not start with '#'; line[0] of the
\* empty string the end of input gives raises IndexError
SkipHeader(lines, pos) ==
    IF AtEnd(lines, pos) THEN [exc |-> "IndexError", pos |-> pos]
    ELSE IF Len(lines[pos].txt) > 0 /\ lines[pos].txt[1] = "#"
         THEN SkipHeader(lines, pos + 1)
         ELSE [exc |-> "none", pos |-> pos]

\* dataset 1: the first six tokens of the line, each through int()
ReadDims(line) ==
    LET toks == Split(line.txt)
    IN  IF Len(toks) < 6 THEN [exc |-> "ValueError", v |-> <<>>]
        ELSE IF \E n \in 1..6 : ~ParseInt(toks[n]).ok
             THEN [exc |-> "ValueError", v |-> <<>>]
             ELSE [exc |-> "none", v |-> [n \in 1..6 |-> ParseInt(toks[n]).v]]

RECURSIVE LaycbdTokens(_, _, _, _)
\* for val in raw: laycbd[d] = np.int(val); d += 1; if d == nlay: break
LaycbdTokens(raw, n, acc, nlay) ==
    IF n > Len(raw) THEN [exc |-> "none", v |-> acc]
    ELSE IF Len(acc) >= nlay THEN [exc |-> "IndexError", v |-> acc]
    ELSE IF ~ParseInt(raw[n]).ok THEN [exc |-> "ValueError", v |-> acc]
    ELSE IF Len(acc) + 1 = nlay
         THEN [exc |-> "none", v |-> Append(acc, ParseInt(raw[n]).v)]
         ELSE LaycbdTokens(raw, n + 1, Append(acc, ParseInt(raw[n]).v), nlay)

RECURSIVE ReadLaycbd(_, _, _, _)
\* dataset 2: the while True loop; it ends only when d == nlay, so at the end
\* of input with d < nlay it reads '' for ever ("hang")
ReadLaycbd(lines, pos, acc, nlay) ==
    IF AtEnd(lines, pos)
    THEN (IF Len(acc) = nlay THEN [exc |-> "none", v |-> acc, pos |-> pos]
          ELSE [exc |-> "hang", v |-> acc, pos |-> pos])
    ELSE LET t == LaycbdTokens(Split(lines[pos].txt), 1, acc, nlay)
         IN  IF t.exc # "none" THEN [exc |-> t.exc, v |-> t.v, pos |-> pos]
             ELSE IF Len(t.v) = nlay
                  THEN [exc |-> "none", v |-> t.v, pos |-> pos + 1]
                  ELSE ReadLaycbd(lines, pos + 1, t.v, nlay)

\* util_2d.load: the record at pos must be an array of the declared shape
LoadArray1(lines, pos, n) ==
    IF AtEnd(lines, pos) \/ ~lines[pos].isarr THEN "FormatError"
    ELSE IF lines[pos].dim # 1 \/ Len(lines[pos].arr) # n THEN "FormatError"
    ELSE "none"

LoadArray2(lines, pos, nr, nc) ==
    IF AtEnd(lines, pos) \/ ~lines[pos].isarr THEN "FormatError"
    ELSE IF lines[pos].dim # 2 \/ ~ShapeOk2(nr, nc, Arr(lines[pos].arr))
         THEN "FormatError"
         ELSE "none"

\* util_3d.load: one record for each of the np planes
LoadArray3(lines, pos, np, nr, nc) ==
    IF \E p \in 0..(np - 1) : LoadArray2(lines, pos + p, nr, nc) # "none"
    THEN "FormatError" ELSE "none"

RECURSIVE ReadPeriods(_, _, _, _)
\* dataset 7: for k in range(nper), one line each; its first four tokens are
\* unpacked into a1..a4 (ValueError when there are fewer)
ReadPeriods(lines, pos, k, acc) ==
    IF k = 0 THEN [exc |-> "none", v |-> acc]
    ELSE LET toks == IF AtEnd(lines, pos) THEN <<>> ELSE Split(lines[pos].txt)
         IN  IF Len(toks) < 4 THEN [exc |-> "ValueError", v |-> acc]
             ELSE IF ~ParseFloat(toks[1]).ok \/ ~ParseInt(toks[2]).ok
                     \/ ~ParseFloat(toks[3]).ok
                  THEN [exc |-> "ValueError", v |-> acc]
                  ELSE ReadPeriods(lines, pos + 1, k - 1,
                           Append(acc, [perlen |-> ParseFloat(toks[1]).v,
                                        nstp |-> ParseInt(toks[2]).v,
                                        tsmult |-> ParseFloat(toks[3]).v,
                                        steady |-> Upper(toks[4]) # <<"T", "R">>]))

\* load(f, model): the result of reading the lines of f, [exc, obj]
load(lines) ==
    LET h == SkipHeader(lines, 1)
    IN  IF h.exc # "none" THEN Fail(h.exc) ELSE
    LET dm == ReadDims(lines[h.pos])
    IN  IF dm.exc # "none" THEN Fail(dm.exc) ELSE
    LET nlay == dm.v[1]
        nrow == dm.v[2]
        ncol == dm.v[3]
        nper == dm.v[4]
    IN  IF nlay < 0 THEN Fail("ValueError") ELSE
    LET lc == ReadLaycbd(lines, h.pos + 1, <<>>, nlay)
    IN  IF lc.exc # "none" THEN Fail(lc.exc) ELSE
    LET pdelr == lc.pos
        pdelc == pdelr + 1
        ptop == pdelc + 1
        pbotm == ptop + 1
        ncbd == SumSeq(lc.v)
        pper == pbotm + nlay + ncbd
    IN  IF LoadArray1(lines, pdelr, ncol) # "none" THEN Fail("FormatError")
        ELSE IF LoadArray1(lines, pdelc, nrow) # "none" THEN Fail("FormatError")
        ELSE IF LoadArray2(lines, ptop, nrow, ncol) # "none" THEN Fail("FormatError")
        ELSE IF LoadArray3(lines, pbotm, nlay + ncbd, nrow, ncol) # "none"
             THEN Fail("FormatError") ELSE
    LET sp == ReadPeriods(lines, pper, nper, <<>>)
    IN  IF sp.exc # "none" THEN Fail(sp.exc) ELSE
        ModflowDis([nlay |-> nlay, nrow |-> nrow, ncol |-> ncol, nper |-> nper,
                    delr |-> Arr(lines[pdelr].arr),
                    delc |-> Arr(lines[pdelc].arr),
                    laycbd |-> Arr(lc.v),
                    top |-> Arr(lines[ptop].arr),
                    botm |-> Arr([p \in 1..(nlay + ncbd) |-> lines[pbotm + p - 1].arr]),
                    perlen |-> Arr([t \in 1..nper |-> sp.v[t].perlen]),
                    nstp |-> Arr([t \in 1..nper |-> sp.v[t].nstp]),
                    tsmult |-> Arr([t \in 1..nper |-> sp.v[t].tsmult]),
                    steady |-> Arr([t \in 1..nper |-> sp.v[t].steady]),
                    itmuni |-> dm.v[5], lenuni |-> dm.v[6]])

(***************************************************************************)
(* ModflowDis.read_from_cnf.  A legacy configuration file is the lines of  *)
(* numbers it holds, or is missing.                                        *)
(***************************************************************************)
CnfMissing == [missing |-> TRUE, lines |-> <<>>]

CnfLines(lines) == [missing |-> FALSE, lines |-> lines]

\* the number of lines that hold ii values, jj to a line
getn(ii, jj) ==
    IF jj = 0 THEN 1
    ELSE IF ii % jj # 0 THEN (ii \div jj) + 1 ELSE ii \div jj

RECURSIVE ReadValues(_, _, _)
\* line = ''; for dummy in range(n): line = line + f_cnf.readline()
\* and then [float(s) for s in line.split()]
ReadValues(lines, pos, n) ==
    IF n = 0 THEN <<>>
    ELSE (IF AtEnd(lines, pos) THEN <<>> ELSE lines[pos])
         \o ReadValues(lines, pos + 1, n - 1)

\* how the try block ended: its exception or "none", how many of the names
\* cnf_nlay, cnf_nrow, cnf_ncol, cnf_delr, cnf_delc, cnf_top, cnf_dz were
\* bound by then, the dimensions read, and whether f_cnf is open and not
\* closed
CnfTried(exc, bound, dims, open) ==
    [exc |-> exc, bound |-> bound, dims |-> dims, open |-> open]

\* the widths, top and thickness blocks of the file, with np.reshape of the
\* last two: its ValueError leaves cnf_top or cnf_dz bound to the flat list
CnfArrays(lines, npl, nlay, nrow, ncol) ==
    LET p3 == (2 + getn(ncol, npl)) + getn(nrow, npl)
        p4 == p3 + getn(nrow * ncol, npl)
    IN  IF Len(ReadValues(lines, p3, getn(nrow * ncol, npl))) # nrow * ncol
        THEN CnfTried("ValueError", 6, <<nlay, nrow, ncol>>, 1)
        ELSE IF Len(ReadValues(lines, p4, getn((nlay * nrow) * ncol, npl)))
                  # (nlay * nrow) * ncol
             THEN CnfTried("ValueError", 7, <<nlay, nrow, ncol>>, 1)
             ELSE CnfTried("none", 7, <<nlay, nrow, ncol>>, 0)

\* the first line (its tokens are s): int(s[0]), int(s[1]), int(s[2])
CnfDims(lines, npl, s) ==
    IF Len(s) < 3 THEN CnfTried("IndexError", Len(s), s, 1)
    ELSE CnfArrays(lines, npl, s[1], s[2], s[3])

\* the try block: open, read, f_cnf.close()
CnfTry(f, npl) ==
    IF f.missing THEN CnfTried("IOError", 0, <<>>, 0)
    ELSE CnfDims(f.lines, npl, IF AtEnd(f.lines, 1) THEN <<>> ELSE f.lines[1])

\* the finally block after the try block ended as t: self.nlay = cnf_nlay,
\* self.nrow = cnf_nrow, self.ncol = cnf_ncol raise UnboundLocalError at the
\* first name that is not bound; util_2d(model, ...) raises NameError, for
\* read_from_cnf has no name model.  [exc, obj, open, tried]
CnfFinally(d, t) ==
    [exc |-> IF t.bound < 3 THEN "UnboundLocalError" ELSE "NameError",
     obj |-> [d EXCEPT !.nlay = IF t.bound >= 1 THEN t.dims[1] ELSE @,
                       !.nrow = IF t.bound >= 2 THEN t.dims[2] ELSE @,
                       !.ncol = IF t.bound >= 3 THEN t.dims[3] ELSE @],
     open |-> t.open,
     tried |-> t.exc]

read_from_cnf(d, f, npl) == CnfFinally(d, CnfTry(f, npl))

(***************************************************************************)
(* The transient array manager (flopy.utils Transient2d): for each stress  *)
(* period either a new array or a repeat of the last one.  A manager is a  *)
(* function from the periods (counted from 0) that were given an array to  *)
(* that array.                                                             *)
(***************************************************************************)
NoEvt == [none |-> TRUE]

\* the value a caller gives for a transient field: one scalar for all
\* periods, or a dictionary keyed on the period
TScalar(v) == [k |-> "scalar", s |-> <<v>>, d |-> <<>>]

TDict(d) == [k |-> "dict", s |-> <<>>, d |-> d]

\* [exc, v]: the manager built from the value, each array of shape (nr, nc)
Transient2d(nr, nc, val) ==
    IF val.k = "scalar"
    THEN [exc |-> "none", v |-> [q \in {0} |-> util_2d(nr, nc, Scalar(val.s[1]))]]
    ELSE IF \E q \in DOMAIN val.d : ~ShapeOk2(nr, nc, Arr(val.d[q]))
         THEN [exc |-> "ShapeError", v |-> <<>>]
         ELSE [exc |-> "none", v |-> val.d]

\* get_kper_entry(n): the flag of period n and what is written for it
get_kper_entry(t, n) ==
    IF n \in DOMAIN t
    THEN [exc |-> "none", flag |-> 1, entry |-> get_file_entry(t[n], 2)]
    ELSE IF \E q \in DOMAIN t : q < n
         THEN [exc |-> "none", flag |-> -1, entry |-> <<>>]
         ELSE [exc |-> "ValueError", flag |-> -1, entry |-> <<>>]

(***************************************************************************)
(* ModflowEvt.__init__                                                     *)
(***************************************************************************)
\* the constructor's defaults; evtr is held in thousandths
DefaultEvtArgs ==
    [nevtop |-> 3, ipakcb |-> 0, surf |-> TScalar(0), evtr |-> TScalar(1),
     exdp |-> TScalar(1), ievt |-> TScalar(1)]

\* the package __init__ builds for the model whose grid is d, or the error
ModflowEvt(d, a) ==
    LET surf == Transient2d(d.nrow, d.ncol, a.surf)
        evtr == Transient2d(d.nrow, d.ncol, a.evtr)
        exdp == Transient2d(d.nrow, d.ncol, a.exdp)
        ievt == Transient2d(d.nrow, d.ncol, a.ievt)
    IN  IF \E t \in {surf, evtr, exdp, ievt} : t.exc # "none"
        THEN [exc |-> "ShapeError", obj |-> NoEvt]
        ELSE [exc |-> "none",
              obj |-> [nevtop |-> a.nevtop,
                       ipakcb |-> IF a.ipakcb # 0 THEN 53 ELSE 0,
                       surf |-> surf.v, evtr |-> evtr.v, exdp |-> exdp.v,
                       ievt |-> ievt.v]]

(***************************************************************************)
(* ModflowEvt.write_file                                                   *)
(***************************************************************************)
evt_heading ==
    <<
       "#", " ", "E", "V", "T", " ", "f", "o", "r", " ", "M", "O", "D",
       "F", "L", "O", "W", ",", " ", "g", "e", "n", "e", "r", "a", "t",
       "e", "d", " ", "b", "y", " ", "F", "l", "o", "p", "y", "."
    >>

evt_comment ==
    <<
       "E", "v", "a", "p", "o", "t", "r", "a", "n", "s", "p", "i", "r",
       "a", "t", "i", "o", "n", " ", " ", "d", "a", "t", "a", "s", "e",
       "t", " ", "5", " ", "f", "o", "r", " ", "s", "t", "r", "e", "s",
       "s", " ", "p", "e", "r", "i", "o", "d", " "
    >>

\* '{0:10d}{1:10d}{2:10d}{3:10d} # {4:s}\n' for period n (counted from 0)
ControlLine(insurf, inevtr, inexdp, inievt, n) ==
    FmtD(insurf, 10) \o FmtD(inevtr, 10) \o FmtD(inexdp, 10) \o FmtD(inievt, 10)
        \o <<" ", "#", " ">> \o evt_comment \o NatStr(n + 1)

\* a writer that writes the layer indicators whenever their flag says so
PeriodRecords_anymode(e, n) ==
    LET s == get_kper_entry(e.surf, n)
        r == get_kper_entry(e.evtr, n)
        x == get_kper_entry(e.exdp, n)
        i == get_kper_entry(e.ievt, n)
    IN  IF \E g \in {s, r, x, i} : g.exc # "none"
        THEN [exc |-> "ValueError", lines |-> <<>>]
        ELSE [exc |-> "none",
              lines |-> <<TextLine(ControlLine(s.flag, r.flag, x.flag, i.flag, n))>>
                        \o (IF s.flag >= 0 THEN s.entry ELSE <<>>)
                        \o (IF r.flag >= 0 THEN r.entry ELSE <<>>)
                        \o (IF x.flag >= 0 THEN x.entry ELSE <<>>)
                        \o (IF i.flag >= 0 THEN i.entry ELSE <<>>)]

\* the body of "for n in range(nper)": the four get_kper_entry calls, the
\* control line, and the payloads
PeriodRecords(e, n) ==
    LET s == get_kper_entry(e.surf, n)
        r == get_kper_entry(e.evtr, n)
        x == get_kper_entry(e.exdp, n)
        i == get_kper_entry(e.ievt, n)
    IN  IF \E g \in {s, r, x, i} : g.exc # "none"
        THEN [exc |-> "ValueError", lines |-> <<>>]
        ELSE [exc |-> "none",
              lines |-> <<TextLine(ControlLine(s.flag, r.flag, x.flag, i.flag, n))>>
                        \o (IF s.flag >= 0 THEN s.entry ELSE <<>>)
                        \o (IF r.flag >= 0 THEN r.entry ELSE <<>>)
                        \o (IF x.flag >= 0 THEN x.entry ELSE <<>>)
                        \o (IF e.nevtop = 2 /\ i.flag >= 0 THEN i.entry ELSE <<>>)]

RECURSIVE WritePeriods(_, _, _)
\* the periods n .. nper-1: [exc, lines], the lines written when it ended
WritePeriods(e, n, nper) ==
    IF n >= nper THEN [exc |-> "none", lines |-> <<>>]
    ELSE LET p == PeriodRecords(e, n)
         IN  IF p.exc # "none" THEN p
             ELSE LET rest == WritePeriods(e, n + 1, nper)
                  IN  [exc |-> rest.exc, lines |-> p.lines \o rest.lines]

\* everything ModflowEvt.write_file writes for a model of nper periods
evt_write_file(e, nper) ==
    LET w == WritePeriods(e, 0, nper)
    IN  [exc |-> w.exc,
         lines |-> <<TextLine(evt_heading)>>
                   \o <<TextLine(FmtD(e.nevtop, 10) \o FmtD(e.ipakcb, 10))>>
                   \o w.lines]

(***************************************************************************)
(* ModflowEvt.load.  The files of the model hold no parameter block        *)
(* (npar = 0): mfparbc is no part of the model.                            *)
(***************************************************************************)
\* the nper argument of load: None, or a number of periods
NperNone == [given |-> FALSE, n |-> 0]

NperOf(n) == [given |-> TRUE, n |-> n]

\* what the loop starts with: surf = {} ... and current_surf = [] ...
NoEntries == [surf |-> <<>>, evtr |-> <<>>, exdp |-> <<>>, ievt |-> <<>>]

RECURSIVE IntsOf(_, _, _)
\* int(t[0]), int(t[1]), ... for the first k tokens in turn: a missing
\* token raises IndexError, a token that is no whole number ValueError
IntsOf(t, k, acc) ==
    IF Len(acc) = k THEN [exc |-> "none", v |-> acc]
    ELSE IF Len(t) <= Len(acc) THEN [exc |-> "IndexError", v |-> acc]
    ELSE IF ~ParseInt(t[Len(acc) + 1]).ok THEN [exc |-> "ValueError", v |-> acc]
    ELSE IntsOf(t, k, Append(acc, ParseInt(t[Len(acc) + 1]).v))

\* a reader that leaves the stream where it was after reading an array
ReadField_peek(lines, pos, flag, cur, d, bound) ==
    IF flag < 0 THEN [exc |-> "none", pos |-> pos, cur |-> cur]
    ELSE IF ~bound THEN [exc |-> "UnboundLocalError", pos |-> pos, cur |-> cur]
    ELSE IF LoadArray2(lines, pos, d.nrow, d.ncol) # "none"
         THEN [exc |-> "FormatError", pos |-> pos, cur |-> cur]
         ELSE [exc |-> "none", pos |-> pos, cur |-> lines[pos].arr]

\* if flag >= 0: t = Util2d.load(f, model, (nrow, ncol), ...); current = t
\* [exc, pos, cur]; nrow and ncol are bound only when load took them from
\* the model
ReadField(lines, pos, flag, cur, d, bound) ==
    IF flag < 0 THEN [exc |-> "none", pos |-> pos, cur |-> cur]
    ELSE IF ~bound THEN [exc |-> "UnboundLocalError", pos |-> pos, cur |-> cur]
    ELSE IF LoadArray2(lines, pos, d.nrow, d.ncol) # "none"
         THEN [exc |-> "FormatError", pos |-> pos, cur |-> cur]
         ELSE [exc |-> "none", pos |-> pos + 1, cur |-> lines[pos].arr]

\* a loop that gives every period the array of the first one
Put_first(dict, iper, v) ==
    [q \in (DOMAIN dict) \cup {iper} |->
        IF q = iper THEN (IF 0 \in DOMAIN dict THEN dict[0] ELSE v) ELSE dict[q]]

\* surf[iper] = current_surf
Put(dict, iper, v) ==
    [q \in (DOMAIN dict) \cup {iper} |-> IF q = iper THEN v ELSE dict[q]]

\* the fields in the order load reads them
FieldNames == <<"surf", "evtr", "exdp", "ievt">>

\* where load stands: the exception it has raised, or "none"; the position
\* of the stream; current_surf ... current_ievt; and surf ... ievt
LoadStart(pos) == [exc |-> "none", pos |-> pos, cur |-> NoEntries, built |-> NoEntries]

\* what reading one field (its result is f) makes of st in period iper
Store(st, f, name, iper) ==
    IF f.exc # "none" THEN [st EXCEPT !.exc = f.exc, !.pos = f.pos]
    ELSE [exc |-> "none", pos |-> f.pos,
          cur |-> [st.cur EXCEPT ![name] = f.cur],
          built |-> [st.built EXCEPT ![name] = Put(@, iper, f.cur)]]

RECURSIVE ReadFields(_, _, _, _, _, _)
\* the fields k, k + 1, ... of period iper, whose flags are fl: surf, evtr
\* and exdp, and ievt when nevtop == 2
ReadFields(lines, k, fl, iper, st, env) ==
    IF st.exc # "none" \/ k > (IF env.nevtop = 2 THEN 4 ELSE 3) THEN st
    ELSE ReadFields(lines, k + 1, fl, iper,
                    Store(st, ReadField(lines, st.pos, fl[k], st.cur[FieldNames[k]],
                                        env.d, env.bound),
                          FieldNames[k], iper),
                    env)

\* the body of "for iper in range(nper)" once the flags fl are read from
\* the control line
ReadPeriod(lines, iper, st, env, fl) ==
    IF fl.exc # "none" THEN [st EXCEPT !.exc = fl.exc]
    ELSE ReadFields(lines, 1, fl.v, iper, [st EXCEPT !.pos = @ + 1], env)

RECURSIVE ReadEvtPeriods(_, _, _, _, _)
\* for iper in range(nper): the control line (the empty line at the end of
\* input), then the arrays its flags ask for
ReadEvtPeriods(lines, iper, nper, st, env) ==
    IF st.exc # "none" \/ iper >= nper THEN st
    ELSE ReadEvtPeriods(lines, iper + 1, nper,
                        ReadPeriod(lines, iper, st, env,
                                   IntsOf(IF AtEnd(lines, st.pos) THEN <<>>
                                          ELSE Split(lines[st.pos].txt),
                                          IF env.nevtop = 2 THEN 4 ELSE 3, <<>>)),
                        env)

\* args = {}; if ievt: args["ievt"] = ievt; ... ; args["ipakcb"] = ipakcb
EvtArgsOf(built, nevtop, ipakcb) ==
    [nevtop |-> IF nevtop # 0 THEN nevtop ELSE DefaultEvtArgs.nevtop,
     ipakcb |-> ipakcb,
     surf |-> IF DOMAIN built.surf # {} THEN TDict(built.surf)
              ELSE DefaultEvtArgs.surf,
     evtr |-> IF DOMAIN built.evtr # {} THEN TDict(built.evtr)
              ELSE DefaultEvtArgs.evtr,
     exdp |-> IF DOMAIN built.exdp # {} THEN TDict(built.exdp)
              ELSE DefaultEvtArgs.exdp,
     ievt |-> IF DOMAIN built.ievt # {} THEN TDict(built.ievt)
              ELSE DefaultEvtArgs.ievt]

EvtFail(e, pos, built) == [exc |-> e, obj |-> NoEvt, pos |-> pos, built |-> built]

\* evt = ModflowEvt(model, **args); return evt (c is what the constructor
\* gives)
EvtReturn(st, c) == [exc |-> c.exc, obj |-> c.obj, pos |-> st.pos, built |-> st.built]

\* the end of load, st being where the period loop left it
EvtCreate(st, d, nevtop, ipakcb) ==
    IF st.exc # "none" THEN EvtFail(st.exc, st.pos, st.built)
    ELSE EvtReturn(st, ModflowEvt(d, EvtArgsOf(st.built, nevtop, ipakcb)))

\* dataset 2 (its tokens are t) and all that follows it
EvtDatasets(lines, pos, t, d, nperarg) ==
    IF IntsOf(t, 1, <<>>).exc # "none"
    THEN EvtFail(IntsOf(t, 1, <<>>).exc, pos + 1, NoEntries)
    ELSE EvtCreate(ReadEvtPeriods(lines, 0,
                                  IF nperarg.given THEN nperarg.n ELSE d.nper,
                                  LoadStart(pos + 1),
                                  [d |-> d, bound |-> ~nperarg.given,
                                   nevtop |-> ParseInt(t[1]).v]),
                   d, ParseInt(t[1]).v,
                   IF IntsOf(t, 2, <<>>).exc = "none" /\ ParseInt(t[2]).v # 0
                   THEN 53 ELSE 0)

\* the header loop (h is where it ended) and all that follows it
EvtAfterHeader(lines, h, d, nperarg) ==
    IF h.exc # "none" THEN EvtFail(h.exc, h.pos, NoEntries)
    ELSE EvtDatasets(lines, h.pos, Split(lines[h.pos].txt), d, nperarg)

\* ModflowEvt.load(f, model, nper): [exc, obj, pos, built]; pos is where the
\* stream stands and built the period dictionaries when load ended
evt_load(lines, d, nperarg) == EvtAfterHeader(lines, SkipHeader(lines, 1), d, nperarg)

(***************************************************************************)
(* The callers the model explores: the arguments they construct a package  *)
(* with and the inputs they pass to its methods.                           *)
(***************************************************************************)
CbdVals == {0, 1, 2}
TopInputs == {Scalar(10), Arr(<<<<10, 11>>, <<12, 14>>>>)}
BotVals == {0, 4}
DelrVals == {10, 20}
DelcVals == {5, 15}
PerlenVals == {Flt(1, 0), Flt(0, 3333333)}
NstpVals == {1, 12}
TsmultVals == {Flt(1, 0), Flt(1, 2000000), Flt(1000, 0)}
GarbageVals == {0, 1, 7}

ScalarOrArr(S, n) == {Scalar(v) : v \in S} \cup {Arr(a) : a \in SeqsOf(S, n)}

\* grids of every size, everything else as the constructor defaults it
IndexArgs ==
    {[DefaultArgs EXCEPT !.nlay = l, !.nrow = r, !.ncol = c] :
        l \in 1..MaxLay, r \in 1..MaxRow, c \in 1..MaxCol}

\* layers, confining-bed flags and elevations; botm is given as a scalar, as
\* one value per plane of the grid, or (by a caller who forgets the confining
\* beds) as one value per layer
LayerArgsOf(l, cbd) ==
    LET np == BotmPlanes(l, ForceBottomZero(util_1d(l, cbd)))
    IN  {[DefaultArgs EXCEPT !.nlay = l, !.laycbd = cbd, !.top = t, !.botm = b] :
            t \in TopInputs,
            b \in {Scalar(v) : v \in BotVals}
                  \cup {Layers(a) : a \in SeqsOf(BotVals, np)}
                  \cup {Layers(a) : a \in SeqsOf(BotVals, l)}}

LayerArgs ==
    UNION {UNION {LayerArgsOf(l, cbd) : cbd \in ScalarOrArr(CbdVals, l)} :
           l \in 1..MaxLay}

\* rows and columns of several widths
PlanArgs ==
    UNION {{[DefaultArgs EXCEPT !.nrow = r, !.ncol = c, !.delr = dr, !.delc = dc] :
               dr \in ScalarOrArr(DelrVals, c), dc \in ScalarOrArr(DelcVals, r)} :
           r \in 1..MaxRow, c \in 1..MaxCol}

\* stress periods
TimeArgs ==
    UNION {{[DefaultArgs EXCEPT !.nper = n, !.perlen = pl, !.nstp = Scalar(ns),
                                !.tsmult = Scalar(tm), !.steady = st] :
               pl \in ScalarOrArr(PerlenVals, n), ns \in NstpVals,
               tm \in TsmultVals, st \in ScalarOrArr(BOOLEAN, n)} :
           n \in 1..MaxPer}

NumNodes(d) == (d.nlay * d.nrow) * d.ncol

ValidCells(d) == {<<k, i, j>> : k \in 1..d.nlay, i \in 1..d.nrow, j \in 1..d.ncol}

\* a scalar node, in the grid or just outside it, or a short list of nodes
NodeInputs(d) ==
    {Scalar(n) : n \in -1..(NumNodes(d) + 1)}
    \cup UNION {{Arr(a) : a \in SeqsOf({0, 1, NumNodes(d)}, len)} : len \in 1..MaxBatch}

\* the cells of the grid and those with one index just outside its range
NearCells(d) ==
    ValidCells(d)
    \cup {<<k, i, j>> : k \in {0, d.nlay + 1}, i \in 1..d.nrow, j \in 1..d.ncol}
    \cup {<<k, i, j>> : k \in 1..d.nlay, i \in {0, d.nrow + 1}, j \in 1..d.ncol}
    \cup {<<k, i, j>> : k \in 1..d.nlay, i \in 1..d.nrow, j \in {0, d.ncol + 1}}

CellInputs(d) ==
    {Scalar(x) : x \in NearCells(d)}
    \cup UNION {{Arr(a) : a \in SeqsOf({<<1, 1, 1>>, <<d.nlay, d.nrow, d.ncol>>,
                                          <<1, d.nrow + 1, 1>>}, len)} :
                len \in 1..MaxBatch}

\* what np.empty((nlay, nrow, ncol)) may hold: the same value everywhere, or
\* a different value in every cell
Buffers(d) ==
    {[l \in 1..d.nlay |-> [r \in 1..d.nrow |-> [c \in 1..d.ncol |-> g]]] :
        g \in GarbageVals}
    \cup {[l \in 1..d.nlay |-> [r \in 1..d.nrow |-> [c \in 1..d.ncol |->
              node_of_lrc(d, <<l, r, c>>)]]]}

\* a discretization file written elsewhere for the same grid, whose
\* confining-bed line flags the bottom layer too (and whose botm has the
\* plane of that bed)
ForeignFile(d) ==
    write_file([d EXCEPT !.laycbd = [@ EXCEPT ![d.nlay] = 1],
                         !.botm = Append(@, @[Len(@)])])

\* grids of one to MaxEvtPer stress periods
EvtGridArgs == {[DefaultArgs EXCEPT !.nper = n] : n \in 1..MaxEvtPer}

NevtopVals == {1, 2, 3}

\* the periods a caller gives arrays for: the first; the first and the
\* last; the first and the fourth; the second only; every period
KeySets(n) ==
    {K \in {{0}, {0, n - 1}, {0, 3} \cap (0..(n - 1)), {1} \cap (0..(n - 1)),
            0..(n - 1)} : K # {}}

\* the array of period q of a field: all cells base + q
FieldDict(d, K, base) ==
    TDict([q \in K |-> util_2d(d.nrow, d.ncol, Scalar(base + q))])

\* what callers construct the package with: every mode with arrays for surf
\* in some periods and repeats in the others; the same for evtr and exdp;
\* layer indicators that miss the first period; a cell-by-cell unit
EvtArgs(d) ==
    {[DefaultEvtArgs EXCEPT !.nevtop = nv, !.surf = sf, !.evtr = er, !.ievt = iv] :
        nv \in NevtopVals,
        sf \in {TScalar(0)} \cup {FieldDict(d, K, 100) : K \in KeySets(d.nper)},
        er \in {TScalar(1), FieldDict(d, {0, 3} \cap (0..(d.nper - 1)), 200)},
        iv \in {TScalar(1), FieldDict(d, {0, d.nper - 1}, 1)}}
    \cup
    {[DefaultEvtArgs EXCEPT !.nevtop = nv, !.evtr = er, !.exdp = xd] :
        nv \in NevtopVals,
        er \in {FieldDict(d, K, 200) : K \in KeySets(d.nper)},
        xd \in {TScalar(1), FieldDict(d, {0, d.nper - 1}, 300)}}
    \cup
    {[DefaultEvtArgs EXCEPT !.nevtop = nv, !.ipakcb = 1, !.ievt = iv] :
        nv \in NevtopVals,
        iv \in {TScalar(1)}
               \cup {FieldDict(d, K, 1) : K \in {{1} \cap (0..(d.nper - 1))} \ {{}}}}

\* grids to read a legacy file into: with and without confining beds
CnfGridArgs ==
    {[DefaultArgs EXCEPT !.nlay = l, !.laycbd = Scalar(cbd), !.top = Scalar(10)] :
        l \in 1..MaxLay, cbd \in {0, 1}}

RECURSIVE Chunks(_, _)
\* the values vals laid out n to a line (all on one line when n is 0)
Chunks(vals, n) ==
    IF n = 0 \/ Len(vals) <= n THEN <<vals>>
    ELSE <<SubSeq(vals, 1, n)>> \o Chunks(SubSeq(vals, n + 1, Len(vals)), n)

\* what a legacy file of l layers, r rows and c columns holds: the column
\* widths, the row widths, the top and the thickness of every cell
CnfDelr(c) == [j \in 1..c |-> 10 * j]

CnfDelc(r) == [i \in 1..r |-> 5 * i]

CnfTop(r, c) == [i \in 1..r |-> [j \in 1..c |-> 20 + i]]

CnfDz(l, r, c) == [k \in 1..l |-> [i \in 1..r |-> [j \in 1..c |-> k + j]]]

\* a matrix, row after row
Flat2(a) == IF Len(a) = 0 THEN <<>> ELSE [n \in 1..(Len(a) * Len(a[1])) |->
                a[((n - 1) \div Len(a[1])) + 1][((n - 1) % Len(a[1])) + 1]]

RECURSIVE Flat3(_)
Flat3(a) == IF Len(a) = 0 THEN <<>> ELSE Flat2(a[1]) \o Flat3(Tail(a))

CnfFile(l, r, c, n) ==
    CnfLines(<<<<l, r, c>>>> \o Chunks(CnfDelr(c), n) \o Chunks(CnfDelc(r), n)
             \o Chunks(Flat2(CnfTop(r, c)), n) \o Chunks(Flat3(CnfDz(l, r, c)), n))

\* the values per line callers lay files out with and read them with
PerLineVals == {0, 2}

CnfWhole ==
    {CnfFile(l, r, c, n) : l \in 1..MaxLay, r \in 1..MaxRow, c \in 1..MaxCol,
                           n \in PerLineVals}

\* the files a caller has: whole ones, ones that end early, none at all
CnfInputs ==
    CnfWhole
    \cup {CnfLines(SubSeq(f.lines, 1, k)) : f \in CnfWhole, k \in {0, 3}}
    \cup {CnfLines(<<<<MaxLay, MaxRow>>>>)}
    \cup {CnfMissing}

\* a file written elsewhere for the same periods can be derived from the
\* package's file when that one supplies surf in the first period
HasFirstSurf(lines) ==
    /\ Len(lines) >= 4 /\ ~lines[3].isarr /\ lines[4].isarr
    /\ IntsOf(Split(lines[3].txt), 4, <<>>).exc = "none"

\* that file: its first control line asks to repeat surf and no surf array
\* follows it
ForeignEvtFile(lines) ==
    LET fl == IntsOf(Split(lines[3].txt), 4, <<>>).v
    IN  <<lines[1], lines[2], TextLine(ControlLine(-1, fl[2], fl[3], fl[4], 0))>>
        \o SubSeq(lines, 5, Len(lines))

(***************************************************************************)
(* The state machine.                                                      *)
(***************************************************************************)
\* what the caller sees when an operation exits, and the number of file
\* handles the operation opened from a path and had not closed by then
Returned(op, arg, val) ==
    [op |-> op, arg |-> arg, exc |-> "none", val |-> val, open |-> 0]

Raised(op, arg, exc) ==
    [op |-> op, arg |-> arg, exc |-> exc, val |-> <<>>, open |-> 0]

\* the operation exits without having called close() on the handle it opened
LeftOpen(r) == [r EXCEPT !.open = 1]

Init ==
    /\ dis = NoDis
    /\ fs = NoFile
    /\ ret = Returned("none", <<>>, <<>>)
    /\ evt = NoEvt
    /\ efs = NoFile

HasDis == dis # NoDis

\* dis = ModflowDis(model, ...): the model gets its package when the
\* constructor returns; a grid is constructed once, and a caller whose
\* constructor raised may try again.
NewDis(a) ==
    /\ ~HasDis
    /\ LET r == ModflowDis(a)
       IN  /\ dis' = IF r.exc = "none" THEN r.obj ELSE dis
           /\ ret' = IF r.exc = "none" THEN Returned("init", a, <<>>)
                     ELSE Raised("init", <<>>, r.exc)
    /\ UNCHANGED fs
    /\ UNCHANGED <<evt, efs>>

GetLrc(nodes) ==
    /\ HasDis
    /\ ret' = Returned("get_lrc", nodes, get_lrc(dis, nodes))
    /\ UNCHANGED <<dis, fs>>
    /\ UNCHANGED <<evt, efs>>

GetNode(lrc_list) ==
    /\ HasDis
    /\ ret' = Returned("get_node", lrc_list, get_node(dis, lrc_list))
    /\ UNCHANGED <<dis, fs>>
    /\ UNCHANGED <<evt, efs>>

Thickness ==
    /\ HasDis
    /\ ret' = Returned("thickness", <<>>, thickness(dis))
    /\ UNCHANGED <<dis, fs>>
    /\ UNCHANGED <<evt, efs>>

GetCellVolumes(buf) ==
    /\ HasDis
    /\ ret' = Returned("get_cell_volumes", <<>>, get_cell_volumes(dis, buf))
    /\ UNCHANGED <<dis, fs>>
    /\ UNCHANGED <<evt, efs>>

GetNodeCoordinates ==
    /\ HasDis
    /\ ret' = Returned("get_node_coordinates", <<>>, get_node_coordinates(dis))
    /\ UNCHANGED <<dis, fs>>
    /\ UNCHANGED <<evt, efs>>

\* what the file system does to a writer: nothing, a refused open(), or a
\* write() that fails once the first lines are on disk
WriteOutcomes == {"ok", "open_fails", "write_fails"}

\* the records on disk when a write() of write_file raises
WrittenBeforeFailure(lines) == SubSeq(lines, 1, 3)

\* ModflowDis.write_file(): open(self.fn_path, 'w'), the writes, and
\* f_dis.close() as the last statement, outside any try
WriteFile(io) ==
    /\ HasDis
    /\ fs' = IF io = "ok" THEN write_file(dis)
             ELSE IF io = "write_fails" THEN WrittenBeforeFailure(write_file(dis))
             ELSE fs
    /\ ret' = IF io = "ok" THEN Returned("write_file", <<>>, <<>>)
              ELSE IF io = "write_fails"
                   THEN LeftOpen(Raised("write_file", <<>>, "IOError"))
                   ELSE Raised("write_file", <<>>, "IOError")
    /\ UNCHANGED dis
    /\ UNCHANGED <<evt, efs>>

\* ModflowDis.load(f, model), f the path of the package's own file or of the
\* foreign one: open(filename, 'r') raises when no file is there; the file
\* load opened is closed nowhere in load
Load(which) ==
    /\ which = "foreign" => HasDis
    /\ IF which = "fs" /\ fs = NoFile
       THEN /\ ret' = Raised("load", which, "IOError")
            /\ UNCHANGED dis
       ELSE LET r == load(IF which = "fs" THEN fs ELSE ForeignFile(dis))
            IN  /\ dis' = IF r.exc = "none" THEN r.obj ELSE dis
                /\ ret' = IF r.exc = "none"
                          THEN LeftOpen(Returned("load", which, <<>>))
                          ELSE LeftOpen(Raised("load", which, r.exc))
    /\ UNCHANGED fs
    /\ UNCHANGED <<evt, efs>>

\* what read_from_cnf leaves when it has ended with r: the package with
\* the attributes assigned so far, and the exception the caller sees
ReadFromCnfExit(arg, r) ==
    /\ dis' = r.obj
    /\ ret' = [Raised("read_from_cnf", arg, r.exc)
                 EXCEPT !.open = r.open, !.val = [tried |-> r.tried]]

\* dis.read_from_cnf(cnf_file_name, n_per_line)
ReadFromCnf(f, npl) ==
    /\ HasDis
    /\ ReadFromCnfExit([file |-> f, n_per_line |-> npl], read_from_cnf(dis, f, npl))
    /\ UNCHANGED <<fs, evt, efs>>

HasEvt == evt # NoEvt

\* evt = ModflowEvt(model, ...), for a model that has its grid
NewEvt(a) ==
    /\ HasDis /\ ~HasEvt
    /\ LET r == ModflowEvt(dis, a)
       IN  /\ evt' = IF r.exc = "none" THEN r.obj ELSE evt
           /\ ret' = IF r.exc = "none" THEN Returned("evt.init", <<>>, <<>>)
                     ELSE Raised("evt.init", <<>>, r.exc)
    /\ UNCHANGED <<dis, fs, efs>>

\* ModflowEvt.write_file(): open(self.fn_path, 'w'), the writes, and
\* f_evt.close() as the last statement; an exception of get_kper_entry
\* leaves what was written and skips the close
EvtWriteFile ==
    /\ HasDis /\ HasEvt
    /\ LET w == evt_write_file(evt, dis.nper)
       IN  /\ efs' = w.lines
           /\ ret' = IF w.exc = "none" THEN Returned("evt.write_file", <<>>, <<>>)
                     ELSE LeftOpen(Raised("evt.write_file", <<>>, w.exc))
    /\ UNCHANGED <<dis, fs, evt>>

\* load has ended with r: the model gets the package when load returns
EvtLoadExit(arg, r) ==
    /\ evt' = IF r.exc = "none" THEN r.obj ELSE evt
    /\ ret' = IF r.exc = "none"
              THEN LeftOpen(Returned("evt.load", arg, [pos |-> r.pos, built |-> r.built]))
              ELSE LeftOpen([Raised("evt.load", arg, r.exc)
                               EXCEPT !.val = [pos |-> r.pos, built |-> r.built]])

\* ModflowEvt.load(f, model, nper), f the path of the package's own file or
\* of the foreign one; val is where the stream stood and the dictionaries
\* load had filled when it exited.  The file load opened is closed nowhere.
EvtLoad(which, nperarg) ==
    /\ HasDis
    /\ which = "foreign" => HasFirstSurf(efs)
    /\ IF which = "efs" /\ efs = NoFile
       THEN /\ ret' = [Raised("evt.load", [which |-> which, nper |-> nperarg],
                               "IOError")
                          EXCEPT !.val = [pos |-> 1, built |-> NoEntries]]
            /\ UNCHANGED evt
       ELSE EvtLoadExit([which |-> which, nper |-> nperarg],
                        evt_load(IF which = "efs" THEN efs ELSE ForeignEvtFile(efs),
                                 dis, nperarg))
    /\ UNCHANGED <<dis, fs, efs>>

\* a caller that builds grids with layers, confining beds and cell widths
\* and asks for the derived geometry
Next ==
    \/ \E a \in LayerArgs \cup PlanArgs : NewDis(a)
    \/ Thickness
    \/ HasDis /\ \E buf \in Buffers(dis) : GetCellVolumes(buf)
    \/ GetNodeCoordinates

Spec == Init /\ [][Next]_vars

\* a caller that builds grids of every size and converts nodes and cells
NextIndex ==
    \/ \E a \in IndexArgs : NewDis(a)
    \/ HasDis /\ \E nodes \in NodeInputs(dis) : GetLrc(nodes)
    \/ HasDis /\ \E lrc_list \in CellInputs(dis) : GetNode(lrc_list)

SpecIndex == Init /\ [][NextIndex]_vars

\* a caller that builds a grid, its cell widths and its stress periods, writes the
\* discretization file and loads it, or a foreign one, back
NextFile ==
    \/ \E a \in LayerArgs \cup TimeArgs \cup PlanArgs : NewDis(a)
    \/ HasDis /\ \E io \in WriteOutcomes : WriteFile(io)
    \/ \E which \in {"fs", "foreign"} : Load(which)

SpecFile == Init /\ [][NextFile]_vars

\* a caller that builds a grid of several stress periods and its
\* evapotranspiration package, writes the package's file and loads it, or a
\* foreign one, back
NextEvt ==
    \/ \E a \in EvtGridArgs : NewDis(a)
    \/ HasDis /\ \E a \in EvtArgs(dis) : NewEvt(a)
    \/ EvtWriteFile
    \/ HasDis /\ \E which \in {"efs", "foreign"} :
                   \E nperarg \in {NperNone, NperOf(dis.nper)} :
                      EvtLoad(which, nperarg)

SpecEvt == Init /\ [][NextEvt]_vars

\* a caller that builds a grid and reads legacy configuration files into it
NextCnf ==
    \/ \E a \in CnfGridArgs : NewDis(a)
    \/ \E f \in CnfInputs : \E npl \in PerLineVals : ReadFromCnf(f, npl)

SpecCnf == Init /\ [][NextCnf]_vars

\* the call of load that reads '' for ever in its loop over the confining
\* bed flags never gives control back to its caller
Hung == ret.op = "load" /\ ret.exc = "hang"

\* the input streams that end early: the first k records of the
\* discretization file of the grid, or of the foreign one
Streams(d) ==
    {[which |-> w, cut |-> k] :
        w \in {"fs", "foreign"}, k \in 0..(Len(write_file(d)) - 1)}

StreamOf(d, st) ==
    SubSeq(IF st.which = "fs" THEN write_file(d) ELSE ForeignFile(d), 1, st.cut)

\* what the caller of load on the stream st has when load has ended with r
\* (for r.exc = "hang", that load has not ended)
LoadStreamExit(st, r) ==
    /\ dis' = IF r.exc = "none" THEN r.obj ELSE dis
    /\ ret' = IF r.exc = "none" THEN LeftOpen(Returned("load", "stream", st))
              ELSE LeftOpen([Raised("load", "stream", r.exc) EXCEPT !.val = st])

\* ModflowDis.load(f, model) on a file that holds the stream st
LoadStream(st) ==
    /\ HasDis /\ ~Hung
    /\ LoadStreamExit(st, load(StreamOf(dis, st)))
    /\ UNCHANGED <<fs, evt, efs>>

\* a caller that builds a grid and loads discretization files that end
\* early
NextStream ==
    \/ ~Hung /\ \E a \in LayerArgs \cup TimeArgs : NewDis(a)
    \/ HasDis /\ \E st \in Streams(dis) : LoadStream(st)

SpecStream == Init /\ [][NextStream]_vars

(***************************************************************************)
(* The claims.                                                             *)
(***************************************************************************)
AllIn(l, S) == \A n \in 1..Len(l) : l[n] \in S

\* C1: for every valid 1-based (k, i, j) of every grid, get_lrc applied to
\* what get_node returned for it gives back (k, i, j), element by element of
\* the batch.
C1_LrcOfNode ==
    (ret.op = "get_node" /\ AllIn(AsList(ret.arg), ValidCells(dis)))
        => get_lrc(dis, Arr(ret.val)) = AsList(ret.arg)

C1_Witness ==
    /\ ret.op = "get_node"
    /\ dis.nlay = 2 /\ dis.nrow = 1 /\ dis.ncol = 2
    /\ ret.arg = Scalar(<<2, 1, 2>>)
    /\ get_lrc(dis, Arr(ret.val)) = <<<<2, 1, 2>>>>

\* C2: for every node n in [1, nlay*nrow*ncol], get_lrc returns a cell of
\* the grid and get_node of that cell returns n; the cells get_lrc gives
\* for the nodes of that range are all the cells of the grid (a bijection).
C2_NodeOfLrc ==
    (ret.op = "get_lrc" /\ AllIn(AsList(ret.arg), 1..NumNodes(dis)))
        => /\ AllIn(ret.val, ValidCells(dis))
           /\ get_node(dis, Arr(ret.val)) = AsList(ret.arg)
           /\ {lrc_of_node(dis, n) : n \in 1..NumNodes(dis)} = ValidCells(dis)
           /\ Cardinality(ValidCells(dis)) = NumNodes(dis)

C2_Witness ==
    /\ ret.op = "get_lrc"
    /\ dis.nlay = 2 /\ dis.nrow = 2 /\ dis.ncol = 1
    /\ ret.arg = Scalar(3)
    /\ ret.val = <<<<2, 1, 1>>>>

\* C3: get_node of a valid (k, i, j) is (k-1)*nrow*ncol + (i-1)*ncol + j; on
\* a 2x2x2 grid get_node((2,2,2)) is 8 and get_node((1,1,1)) is 1.
C3_NodeFormula ==
    (ret.op = "get_node" /\ AllIn(AsList(ret.arg), ValidCells(dis)))
        => /\ \A n \in 1..Len(ret.val) :
                LET x == AsList(ret.arg)[n]
                IN  ret.val[n] = (((x[1] - 1) * dis.nrow) * dis.ncol)
                                    + ((x[2] - 1) * dis.ncol) + x[3]
           /\ (dis.nlay = 2 /\ dis.nrow = 2 /\ dis.ncol = 2)
                => /\ ret.arg = Scalar(<<2, 2, 2>>) => ret.val = <<8>>
                   /\ ret.arg = Scalar(<<1, 1, 1>>) => ret.val = <<1>>

C3_Witness ==
    /\ ret.op = "get_node"
    /\ dis.nlay = 2 /\ dis.nrow = 2 /\ dis.ncol = 2
    /\ ret.arg = Scalar(<<2, 2, 2>>)
    /\ ret.val = <<8>>

\* C4: get_lrc raises IndexError for every node outside [1, nlay*nrow*ncol]
\* and get_node raises IndexError for every (k, i, j) with a component
\* outside its range; neither returns a value for such input.
C4_OutOfRangeRaises ==
    /\ (ret.op = "get_lrc" /\ ~AllIn(AsList(ret.arg), 1..NumNodes(dis)))
          => ret.exc = "IndexError"
    /\ (ret.op = "get_node" /\ ~AllIn(AsList(ret.arg), ValidCells(dis)))
          => ret.exc = "IndexError"

\* C5: whenever the model has a ModflowDis, built by the constructor from
\* any laycbd argument or by load from any file, the last element of its
\* laycbd is 0.
C5_BottomFlagZero == HasDis => dis.laycbd[dis.nlay] = 0

C5_Witness ==
    /\ ret.op = "init" /\ ret.exc = "none"
    /\ ret.arg.laycbd.k = "array"
    /\ ret.arg.laycbd.a[dis.nlay] # 0
    /\ dis.nlay = 2
    /\ dis.laycbd[dis.nlay] = 0

\* C6: for every constructed grid the number of planes of botm is nlay plus
\* the number of layers whose laycbd flag (the last one forced to 0) is not
\* zero, whatever non-zero value the flags have.
C6_BotmPlanes ==
    HasDis => Len(dis.botm)
                = dis.nlay + Cardinality({l \in 1..dis.nlay : dis.laycbd[l] # 0})

\* C7: get_cell_volumes returns thickness[l][r][c] * delc[r] * delr[c] for
\* every cell, whatever the result buffer held before; with delr = [10, 20],
\* delc = [5, 5] and thickness 1 every layer is [[50, 100], [50, 100]].
C7_CellVolumes ==
    ret.op = "get_cell_volumes"
        => /\ \A l \in 1..dis.nlay : \A r \in 1..dis.nrow : \A c \in 1..dis.ncol :
                ret.val[l][r][c] = (thickness(dis)[l][r][c] * dis.delc[r]) * dis.delr[c]
           /\ (/\ dis.delr = <<10, 20>> /\ dis.delc = <<5, 5>>
               /\ \A l \in 1..dis.nlay : thickness(dis)[l] = <<<<1, 1>>, <<1, 1>>>>)
                => \A l \in 1..dis.nlay : ret.val[l] = <<<<50, 100>>, <<50, 100>>>>

\* C8: the thickness result has nlay planes; plane 0 is top - botm[0] and
\* plane k (1 <= k < nlay) is botm[k-1] - botm[k], cell by cell, also on
\* grids whose botm holds confining-bed planes.
C8_Thickness ==
    ret.op = "thickness"
        => /\ Len(ret.val) = dis.nlay
           /\ \A r \in 1..dis.nrow : \A c \in 1..dis.ncol :
                /\ ret.val[1][r][c] = dis.top[r][c] - dis.botm[1][r][c]
                /\ \A k \in 2..dis.nlay :
                      ret.val[k][r][c] = dis.botm[k - 1][r][c] - dis.botm[k][r][c]

C8_Witness ==
    /\ ret.op = "thickness"
    /\ dis.nlay = 2 /\ Len(dis.botm) > dis.nlay
    /\ dis.top = <<<<10, 11>>, <<12, 14>>>>
    /\ dis.botm[1][1][1] = 4 /\ dis.botm[2][1][1] = 0
    /\ ret.val = <<<<<<6, 7>>, <<8, 10>>>>, <<<<4, 4>>, <<4, 4>>>>>>

\* C9: get_node_coordinates returns y in descending order and y[r] is
\* sum(delc) minus the distance from the top edge to the centre of row r,
\* also for rows of different widths; x[c] is the sum of delr[0..c-1] plus
\* delr[c]/2.  (The centroids are held doubled.)
C9_NodeCoordinates ==
    ret.op = "get_node_coordinates"
        => /\ \A r \in 1..(dis.nrow - 1) : ret.val.y[r] > ret.val.y[r + 1]
           /\ \A r \in 1..dis.nrow :
                ret.val.y[r] = 2 * SumSeq(dis.delc)
                                 - (2 * SumSeq(SubSeq(dis.delc, 1, r - 1)) + dis.delc[r])
           /\ \A c \in 1..dis.ncol :
                ret.val.x[c] = 2 * SumSeq(SubSeq(dis.delr, 1, c - 1)) + dis.delr[c]

\* C10: loading the file that write_file wrote for a grid succeeds and gives
\* nlay, nrow, ncol, nper and the perlen, nstp, tsmult and steady sequences
\* of that grid, for every grid and every mix of steady and transient
\* periods.
C10_RoundTrip ==
    [][(/\ HasDis /\ fs # NoFile /\ fs = write_file(dis)
        /\ ret'.op = "load" /\ ret'.arg = "fs")
          => /\ ret'.exc = "none"
             /\ dis'.nlay = dis.nlay /\ dis'.nrow = dis.nrow
             /\ dis'.ncol = dis.ncol /\ dis'.nper = dis.nper
             /\ dis'.perlen = dis.perlen /\ dis'.nstp = dis.nstp
             /\ dis'.tsmult = dis.tsmult /\ dis'.steady = dis.steady]_vars

\* the tokens of a line of text, each through int()
IntsIn(toks) == [n \in 1..Len(toks) |-> ParseInt(toks[n]).v]

IntTokens(line) == IntsIn(Split(line.txt))

\* the last token of a line of text
LastOf(toks) == toks[Len(toks)]

LastToken(line) == LastOf(Split(line.txt))

\* C11: the file write_file leaves holds, in this order and once each, the
\* heading line, one dimensions line (nlay nrow ncol nper itmuni lenuni), one
\* confining-bed line of nlay flags, the delr record, the delc record, the
\* top record, the botm records (one for each plane), and then exactly nper
\* stress-period lines in increasing period order whose last token is SS
\* for a steady period and TR for a transient one.
C11_RecordOrder ==
    (ret.op = "write_file" /\ ret.exc = "none")
        => LET np == Len(dis.botm)
           IN  /\ Len(fs) = (6 + np) + dis.nper
               /\ fs[1] = TextLine(heading)
               /\ ~fs[2].isarr
               /\ IntTokens(fs[2]) = <<dis.nlay, dis.nrow, dis.ncol, dis.nper,
                                       dis.itmuni, dis.lenuni>>
               /\ ~fs[3].isarr /\ IntTokens(fs[3]) = dis.laycbd
               /\ fs[4].isarr /\ fs[4].dim = 1 /\ fs[4].arr = dis.delr
               /\ fs[5].isarr /\ fs[5].dim = 1 /\ fs[5].arr = dis.delc
               /\ fs[6].isarr /\ fs[6].dim = 2 /\ fs[6].arr = dis.top
               /\ \A p \in 1..np :
                     /\ fs[6 + p].isarr /\ fs[6 + p].dim = 2
                     /\ fs[6 + p].arr = dis.botm[p]
               /\ \A t \in 1..dis.nper :
                     LET line == fs[(6 + np) + t]
                     IN  /\ ~line.isarr
                         /\ Split(line.txt)[1] = Split(FmtF(dis.perlen[t], 14))[1]
                         /\ LastToken(line) = IF dis.steady[t] THEN <<"S", "S">>
                                              ELSE <<"T", "R">>

C11_Witness ==
    /\ ret.op = "write_file" /\ ret.exc = "none"
    /\ dis.nper = 2 /\ dis.steady = <<TRUE, FALSE>>
    /\ dis.perlen = <<Flt(1, 0), Flt(0, 3333333)>>
    /\ Len(fs) = 9
    /\ LastToken(fs[8]) = <<"S", "S">> /\ LastToken(fs[9]) = <<"T", "R">>

C11_WitnessWidths ==
    /\ ret.op = "write_file" /\ ret.exc = "none"
    /\ dis.delr = <<10, 20>> /\ dis.delc = <<5, 15>>
    /\ fs[4].arr = <<10, 20>> /\ fs[5].arr = <<5, 15>>

\* the characters a to b of a line, without the blanks around them
Field(line, a, b) == Split(SubSeq(line.txt, a, b))

\* C12: every stress-period line holds perlen in characters 1..14, nstp in
\* characters 15..24, tsmult in characters 25..34 and ends with the two
\* characters of its SS/TR tag; the dimensions line is six fields of 10
\* characters and the confining-bed line one field of 3 characters for
\* each layer.
C12_FieldWidths ==
    (ret.op = "write_file" /\ ret.exc = "none")
        => LET dims == <<dis.nlay, dis.nrow, dis.ncol, dis.nper,
                         dis.itmuni, dis.lenuni>>
           IN  /\ Len(fs[2].txt) = 60
               /\ \A n \in 1..6 :
                     Field(fs[2], (10 * n) - 9, 10 * n) = <<NatStr(dims[n])>>
               /\ Len(fs[3].txt) = 3 * dis.nlay
               /\ \A l \in 1..dis.nlay :
                     Field(fs[3], (3 * l) - 2, 3 * l) = <<NatStr(dis.laycbd[l])>>
               /\ \A t \in 1..dis.nper :
                     LET line == fs[(6 + Len(dis.botm)) + t]
                         n == Len(line.txt)
                     IN  /\ Field(line, 1, 14) = Split(FmtF(dis.perlen[t], 14))
                         /\ Field(line, 15, 24) = <<NatStr(dis.nstp[t])>>
                         /\ Field(line, 25, 34) = Split(FmtF(dis.tsmult[t], 10))
                         /\ SubSeq(line.txt, n - 1, n)
                              = IF dis.steady[t] THEN <<"S", "S">> ELSE <<"T", "R">>

\* the same without the stress-period lines: the dimensions line and the
\* confining-bed line have the widths C12 states
C12_HeaderWidths ==
    (ret.op = "write_file" /\ ret.exc = "none")
        => LET dims == <<dis.nlay, dis.nrow, dis.ncol, dis.nper,
                         dis.itmuni, dis.lenuni>>
           IN  /\ Len(fs[2].txt) = 60
               /\ \A n \in 1..6 :
                     Field(fs[2], (10 * n) - 9, 10 * n) = <<NatStr(dims[n])>>
               /\ Len(fs[3].txt) = 3 * dis.nlay
               /\ \A l \in 1..dis.nlay :
                     Field(fs[3], (3 * l) - 2, 3 * l) = <<NatStr(dis.laycbd[l])>>

\* and the stress-period line as the program writes it: 14, 14 and 10
\* characters, two blanks, and the tag left-justified in 3 characters
C12_PeriodWidthsWritten ==
    (ret.op = "write_file" /\ ret.exc = "none")
        => \A t \in 1..dis.nper :
              LET line == fs[(6 + Len(dis.botm)) + t]
              IN  (dis.tsmult[t].ip < 1000)
                    => /\ Len(line.txt) = 43
                       /\ Field(line, 1, 14) = Split(FmtF(dis.perlen[t], 14))
                       /\ Field(line, 15, 28) = <<NatStr(dis.nstp[t])>>
                       /\ Field(line, 29, 38) = Split(FmtF(dis.tsmult[t], 10))
                       /\ SubSeq(line.txt, 39, 43)
                            = <<" ", " ">> \o (IF dis.steady[t] THEN <<"S", "S">>
                                               ELSE <<"T", "R">>) \o <<" ">>

\* C13: no operation that opens a file from a path returns or raises while
\* the handle it opened is still open.
C13_HandlesClosed == ret.open = 0

\* the records of an evapotranspiration file: the lines of text after the
\* first two are the control lines, one for each period (counted from 0);
\* the array records between a control line and the next are its payloads
NumText(file) == Cardinality({j \in 1..Len(file) : ~file[j].isarr})

CtlPos(file, p) ==
    CHOOSE i \in 1..Len(file) :
        /\ ~file[i].isarr
        /\ Cardinality({j \in 1..(i - 1) : ~file[j].isarr}) = p + 2

Flags(file, p) == SubSeq(IntTokens(file[CtlPos(file, p)]), 1, 4)

Block(file, p) ==
    SubSeq(file, CtlPos(file, p) + 1,
           IF p + 3 = NumText(file) THEN Len(file) ELSE CtlPos(file, p + 1) - 1)

\* the payload of an array under a flag
Payload(flag, a) == IF flag >= 0 THEN <<ArrayRecord(a, 2)>> ELSE <<>>

\* C14 as stated: write_file writes, for every period in increasing order,
\* one control line of four flags and then the payloads of surf, evtr,
\* exdp and ievt in this order, the payload of a field if and only if its
\* flag on the control line is non-negative.
C14_PayloadIffFlag ==
    (ret.op = "evt.write_file" /\ ret.exc = "none")
        => /\ NumText(efs) = 2 + dis.nper
           /\ \A p \in 0..(dis.nper - 1) :
                /\ LastToken(efs[CtlPos(efs, p)]) = NatStr(p + 1)
                /\ Block(efs, p)
                     = Payload(Flags(efs, p)[1], evt.surf[p])
                       \o Payload(Flags(efs, p)[2], evt.evtr[p])
                       \o Payload(Flags(efs, p)[3], evt.exdp[p])
                       \o Payload(Flags(efs, p)[4], evt.ievt[p])

\* C14, amended: the same, but the payload of ievt is written if and only
\* if nevtop is 2 and its flag is non-negative; the payloads of surf, evtr
\* and exdp are written if and only if their flags are non-negative.
C14_PayloadIffFlagAndMode ==
    (ret.op = "evt.write_file" /\ ret.exc = "none")
        => /\ NumText(efs) = 2 + dis.nper
           /\ \A p \in 0..(dis.nper - 1) :
                /\ LastToken(efs[CtlPos(efs, p)]) = NatStr(p + 1)
                /\ Block(efs, p)
                     = Payload(Flags(efs, p)[1], evt.surf[p])
                       \o Payload(Flags(efs, p)[2], evt.evtr[p])
                       \o Payload(Flags(efs, p)[3], evt.exdp[p])
                       \o (IF evt.nevtop = 2
                           THEN Payload(Flags(efs, p)[4], evt.ievt[p]) ELSE <<>>)

C14_Witness ==
    /\ ret.op = "evt.write_file" /\ ret.exc = "none"
    /\ dis.nper = 5 /\ evt.nevtop = 3
    /\ DOMAIN evt.surf = {0, 3} /\ DOMAIN evt.evtr = {0, 3}
    /\ Flags(efs, 0) = <<1, 1, 1, 1>> /\ Len(Block(efs, 0)) = 3
    /\ Flags(efs, 1) = <<-1, -1, -1, -1>> /\ Len(Block(efs, 1)) = 0
    /\ Flags(efs, 3) = <<1, 1, -1, -1>>
    /\ Block(efs, 3) = <<ArrayRecord(evt.surf[3], 2), ArrayRecord(evt.evtr[3], 2)>>

\* the period at or before p in which the array of p was supplied
Nearest(K, p) == CHOOSE q \in K : q <= p /\ \A m \in K : m <= p => m <= q

\* C15: load, taking the period count from the model, reads the file that
\* write_file wrote to its end and no further, without error, for every
\* nevtop and every pattern of flags: every record is read once, in the
\* order it was written (each period has the arrays that were written for
\* it or for the period it repeats); the layer indicators are read when
\* nevtop is 2 and neither their flag nor their array otherwise.
C15_ConsumedExactly ==
    [][(/\ HasDis /\ HasEvt /\ efs # NoFile
        /\ evt_write_file(evt, dis.nper) = [exc |-> "none", lines |-> efs]
        /\ ret'.op = "evt.load" /\ ret'.arg.which = "efs" /\ ~ret'.arg.nper.given)
          => /\ ret'.exc = "none"
             /\ ret'.val.pos = Len(efs) + 1
             /\ \A k \in 1..3 : \A p \in 0..(dis.nper - 1) :
                   ret'.val.built[FieldNames[k]][p]
                     = evt[FieldNames[k]][Nearest(DOMAIN evt[FieldNames[k]], p)]
             /\ IF evt.nevtop = 2
                THEN \A p \in 0..(dis.nper - 1) :
                        ret'.val.built.ievt[p] = evt.ievt[Nearest(DOMAIN evt.ievt, p)]
                ELSE DOMAIN ret'.val.built.ievt = {}]_vars

C15_Witness ==
    /\ ret.op = "evt.load" /\ ret.exc = "none" /\ ret.arg.which = "efs"
    /\ dis.nper = 5 /\ evt.nevtop = 2
    /\ Flags(efs, 0) = <<1, 1, 1, 1>> /\ Flags(efs, 3) = <<1, -1, -1, -1>>
    /\ Flags(efs, 4) = <<-1, -1, -1, 1>>
    /\ Len(efs) = 13 /\ ret.val.pos = 14
    /\ DOMAIN ret.val.built.ievt = 0..4

C15_WitnessOtherMode ==
    /\ ret.op = "evt.load" /\ ret.exc = "none" /\ ret.arg.which = "efs"
    /\ dis.nper = 5 /\ evt.nevtop = 3
    /\ Flags(efs, 4) = <<-1, -1, -1, 1>>
    /\ ret.val.pos = Len(efs) + 1
    /\ DOMAIN ret.val.built.ievt = {}

\* the file a load was given
Loaded == IF ret.arg.which = "efs" THEN efs ELSE ForeignEvtFile(efs)

\* the flags and the places of all control lines of a file
FlagTable(file) == [p \in 0..(NumText(file) - 3) |-> Flags(file, p)]

CtlTable(file) == [p \in 0..(NumText(file) - 3) |-> CtlPos(file, p)]

\* the array the file holds for field k in period q
ArrayOf(file, k, q) ==
    file[CtlPos(file, q) + 1
         + Cardinality({j \in 1..(k - 1) : Flags(file, q)[j] >= 0})].arr

\* built resolves every repeat of the file, whose flags are ft and whose
\* control lines are at ct, to the nearest earlier array
Resolves(file, built, ft, ct) ==
    \A k \in 1..3 : \A p \in DOMAIN built[FieldNames[k]] :
        LET S == {q \in 0..p : ft[q][k] >= 0}
        IN  S # {}
              => built[FieldNames[k]][p]
                   = file[ct[Nearest(S, p)] + 1
                          + Cardinality({j \in 1..(k - 1) :
                                           ft[Nearest(S, p)][j] >= 0})].arr

\* C16: for surf, evtr and exdp and every pattern of flags, the entry load
\* makes for period p is the array the file supplies for p when the flag of
\* p is non-negative, and otherwise the array of the nearest earlier period
\* whose flag is non-negative.
C16_CarryForward ==
    ret.op = "evt.load"
        => Resolves(Loaded, ret.val.built, FlagTable(Loaded), CtlTable(Loaded))

C16_Witness ==
    /\ ret.op = "evt.load" /\ ret.exc = "none" /\ ret.arg.which = "efs"
    /\ dis.nper = 5
    /\ \A p \in 0..4 : (Flags(efs, p)[1] >= 0) = (p \in {0, 3})
    /\ ArrayOf(efs, 1, 0) # ArrayOf(efs, 1, 3)
    /\ evt.surf[0] = ArrayOf(efs, 1, 0)
    /\ evt.surf[1] = ArrayOf(efs, 1, 0) /\ evt.surf[2] = ArrayOf(efs, 1, 0)
    /\ evt.surf[3] = ArrayOf(efs, 1, 3) /\ evt.surf[4] = ArrayOf(efs, 1, 3)

\* C17: a load whose first period asks to repeat a field, and a write_file
\* of a package with a field that has no array for the first period, raise
\* ValueError; and no entry load makes for a period is an empty array.
C17_RepeatBeforeValue ==
    /\ (ret.op = "evt.load" /\ ret.arg.which = "foreign" /\ ~ret.arg.nper.given)
          => ret.exc = "ValueError"
    /\ ret.op = "evt.load"
          => \A k \in 1..4 : \A p \in DOMAIN ret.val.built[FieldNames[k]] :
                ret.val.built[FieldNames[k]][p] # <<>>
    /\ (ret.op = "evt.write_file"
        /\ \E k \in 1..4 : 0 \notin DOMAIN evt[FieldNames[k]])
          => ret.exc = "ValueError"

\* the part of C17 that holds: asking the manager of a field for a period
\* before its first array raises ValueError
C17_RequestBeforeValue ==
    (ret.op = "evt.write_file" /\ \E k \in 1..4 : 0 \notin DOMAIN evt[FieldNames[k]])
        => ret.exc = "ValueError"

\* a whole legacy file, read with the values per line it was laid out with
WholeCnf(arg) ==
    \E l \in 1..MaxLay : \E r \in 1..MaxRow : \E c \in 1..MaxCol :
        arg.file = CnfFile(l, r, c, arg.n_per_line)

RECURSIVE BotmBelow(_, _, _)
\* plane l of the elevations under top for the thicknesses dz:
\* top - dz[1] for l = 1 and the plane above minus dz[l] below it
BotmBelow(top, dz, l) ==
    [i \in 1..Len(top) |-> [j \in 1..Len(top[1]) |->
        (IF l = 1 THEN top[i][j] ELSE BotmBelow(top, dz, l - 1)[i][j]) - dz[l][i][j]]]

\* C18: after read_from_cnf of a whole legacy file, nlay, nrow and ncol,
\* delr, delc and top are those of the file, and botm is top - dz[0] in the
\* first layer and botm[l-1] - dz[l] in every layer l below it.
C18_BotmFromThickness ==
    (ret.op = "read_from_cnf" /\ WholeCnf(ret.arg))
        => LET s == ret.arg.file.lines[1]
           IN  /\ dis.nlay = s[1] /\ dis.nrow = s[2] /\ dis.ncol = s[3]
               /\ dis.delr = CnfDelr(s[3]) /\ dis.delc = CnfDelc(s[2])
               /\ dis.top = CnfTop(s[2], s[3])
               /\ \A l \in 1..s[1] :
                     dis.botm[l] = BotmBelow(CnfTop(s[2], s[3]),
                                             CnfDz(s[1], s[2], s[3]), l)

\* C19: after read_from_cnf of a whole legacy file into a grid that has
\* confining beds, botm has exactly the nlay planes of the file, each the
\* plane the thicknesses give.
C19_LaycbdIgnored ==
    (ret.op = "read_from_cnf" /\ WholeCnf(ret.arg) /\ SumSeq(dis.laycbd) > 0)
        => LET s == ret.arg.file.lines[1]
           IN  /\ Len(dis.botm) = s[1]
               /\ \A l \in 1..Len(dis.botm) :
                     dis.botm[l] = BotmBelow(CnfTop(s[2], s[3]),
                                             CnfDz(s[1], s[2], s[3]), l)

\* C20: when read_from_cnf cannot open its file, the caller sees the I/O
\* error of open() and no other exception.
C20_IOErrorUnchanged ==
    (ret.op = "read_from_cnf" /\ ret.arg.file.missing) => ret.exc = "IOError"

(***************************************************************************)
(* ModflowEvt.load with the number of stress periods given by the caller.  *)
(***************************************************************************)
\* C21: load, called with the number of stress periods of the model as its
\* nper argument, reads the file that write_file wrote as it does when nper
\* is None: it returns a package and has read every record, to the end of
\* the file.
C21_ExplicitNperLoads ==
    [][(/\ HasDis /\ HasEvt /\ efs # NoFile
        /\ evt_write_file(evt, dis.nper) = [exc |-> "none", lines |-> efs]
        /\ ret'.op = "evt.load" /\ ret'.arg.which = "efs"
        /\ ret'.arg.nper = NperOf(dis.nper))
          => /\ ret'.exc = "none"
             /\ ret'.val.pos = Len(efs) + 1]_vars

\* what the code does with a given nper: nrow and ncol are bound only
\* under "if nper is None", so the first array a control line asks for
\* raises UnboundLocalError; load has then read the header, dataset 2 and
\* one control line and has filled no dictionary
C21_ExplicitNperUnbound ==
    [][(/\ HasDis /\ HasEvt /\ efs # NoFile
        /\ evt_write_file(evt, dis.nper) = [exc |-> "none", lines |-> efs]
        /\ ret'.op = "evt.load" /\ ret'.arg.which = "efs"
        /\ ret'.arg.nper = NperOf(dis.nper))
          => /\ ret'.exc = "UnboundLocalError"
             /\ ret'.val.built = NoEntries
             /\ ret'.val.pos = CtlPos(efs, 0) + 1
             /\ evt' = evt]_vars

(***************************************************************************)
(* The grid after calls of read_from_cnf.                                  *)
(***************************************************************************)
\* the arrays of a grid have the shapes its dimensions give: delr has ncol
\* widths, delc nrow widths, top and every plane of botm nrow rows of ncol
\* cells
ShapeConsistent(d) ==
    /\ Len(d.delr) = d.ncol
    /\ Len(d.delc) = d.nrow
    /\ Len(d.top) = d.nrow
    /\ \A i \in 1..Len(d.top) : Len(d.top[i]) = d.ncol
    /\ \A p \in 1..Len(d.botm) :
          /\ Len(d.botm[p]) = d.nrow
          /\ \A i \in 1..Len(d.botm[p]) : Len(d.botm[p][i]) = d.ncol

\* C22: a grid that was constructed and then given any number of calls of
\* read_from_cnf, whole files, files that end early and files that cannot
\* be opened among them, has arrays of the shapes its dimensions give.
C22_ShapeConsistent == HasDis => ShapeConsistent(dis)

\* what the code does: no call of read_from_cnf replaces delr, delc, top or
\* botm, and every call whose file has a first token assigns nlay (and
\* nrow and ncol when the file has them)
C22_ArraysKeptDimsAssigned ==
    [][ret'.op = "read_from_cnf"
         => /\ dis'.delr = dis.delr /\ dis'.delc = dis.delc
            /\ dis'.top = dis.top /\ dis'.botm = dis.botm
            /\ LET f == ret'.arg.file
               IN  (~f.missing /\ Len(f.lines) >= 1)
                     => /\ dis'.nlay = f.lines[1][1]
                        /\ Len(f.lines[1]) >= 2 => dis'.nrow = f.lines[1][2]
                        /\ Len(f.lines[1]) >= 3 => dis'.ncol = f.lines[1][3]]_vars

(***************************************************************************)
(* ModflowDis.load on input that ends early.                               *)
(***************************************************************************)
\* C23: load ends, with a grid or with an exception, on every stream that
\* ends early: no call of load is left reading the end of its input for
\* ever.
C23_LoadTerminates == ~Hung

\* what the code does: a stream that ends after dataset 1 and before the
\* last confining bed flag leaves load in its "while True" loop; a stream
\* that ends anywhere else makes load raise
C23_HangsBeforeFlagsOnly ==
    (ret.op = "load" /\ ret.arg = "stream")
        => LET whole == IF ret.val.which = "fs" THEN write_file(dis)
                        ELSE ForeignFile(dis)
           IN  /\ ret.exc # "none"
               /\ ret.exc = "hang" <=> ret.val.cut = 2
               /\ ret.val.cut < 2 => ret.exc = "IndexError"
               /\ (ret.val.cut > 2 /\ ret.val.cut < Len(whole) - dis.nper)
                     => ret.exc = "FormatError"
               /\ ret.val.cut >= Len(whole) - dis.nper => ret.exc = "ValueError"

====
